---- MODULE Spec2Model ----
(***************************************************************************)
(* Model of streamapp.py (PDF Flattener): the upload check and the         *)
(* Flatten handler of main(), rasterise_streaming() and rebuild_pdf().     *)
(* Two sessions (runs) execute main() on independent uploads and share     *)
(* only the file system, where the temporary files of both live.           *)
(***************************************************************************)
EXTENDS Integers, Sequences, FiniteSets, TLC

\* ---------------------------------------------------------------- bounds
MaxPages == 2          \* largest page count pdfinfo reports in the model
NumNames == 2          \* names mkstemp / mkdtemp can draw from

\* ------------------------------------------------------ program constants
MAX_FILE_SIZE == 25000000

\* the sessions running main() side by side, each on its own upload
Runs == {1, 2}
Names == 1..NumNames
\* upload sizes at the limit and beyond it
Sizes == {MAX_FILE_SIZE, MAX_FILE_SIZE + 1, MAX_FILE_SIZE + 2}

VARIABLES
    pc,          \* pc[r]: position of run r in main()
    size,        \* size[r]: file.size of the upload (0: nothing uploaded)
    fs,          \* the file system: path -> entry, shared by the runs
    tmpname,     \* tmpname[r]: tmp.name of the NamedTemporaryFile (0: none)
    src,         \* src[r]: the local `src` of main (0: unbound)
    td,          \* td[r]: the TemporaryDirectory (0: none)
    pages,       \* pages[r]: page count from pdfinfo (-1: not resolved)
    p,           \* p[r]: loop variable of rasterise_streaming
    bitmaps,     \* bitmaps[r]: decoded page images resident in memory
    jpeg_paths,  \* jpeg_paths[r]: the list built by rasterise_streaming
    calls,       \* calls[r]: arguments update() was called with, in order
    ext,         \* ext[r]: calls made to the toolchain/libraries, with outcome
    exc,         \* exc[r]: the exception raised in the run ("none": none)
    flattened,   \* flattened[r]: {} while unbound, else {the pdf}
    ui,          \* ui[r]: messages shown by st.error / st.success
    download     \* download[r]: data offered by st.download_button

vars == <<pc, size, fs, tmpname, src, td, pages, p, bitmaps, jpeg_paths,
          calls, ext, exc, flattened, ui, download>>

\* ------------------------------------------------------------ file system
SrcPath(n) == <<"tmp", n, 0>>
DirPath(d) == <<"dir", d, 0>>
PagePath(d, k) == <<"dir", d, k>>

Entry(r, d, k) == [by |-> r, doc |-> d, page |-> k]

Exists(q) == q \in DOMAIN fs

Put(f, q, e) == [x \in (DOMAIN f) \cup {q} |-> IF x = q THEN e ELSE f[x]]

Remove(f, S) == [x \in (DOMAIN f) \ S |-> f[x]]

\* everything below directory d, and d itself
Tree(d) == {q \in DOMAIN fs : q[1] = "dir" /\ q[2] = d}

MkstempNames == {n \in Names : ~Exists(SrcPath(n))}

\* a directory name that does not depend on what exists
MkdtempNames_Fixed == {1}

MkdtempNames == {d \in Names : ~Exists(DirPath(d))}

\* ---------------------------------------------------------------- helpers
Range(s) == {s[i] : i \in 1..Len(s)}

Raise(r, e) == exc' = [exc EXCEPT ![r] = e]

Log(r, c) == ext' = [ext EXCEPT ![r] = Append(@, c)]

\* progress fractions are kept exact: p / pages is <<p, pages>>, 1.0 is <<1, 1>>
Frac(a, b) == <<a, b>>

One == Frac(1, 1)

FracLe(x, y) == x[1] * y[2] <= y[1] * x[2]

FracEq(x, y) == x[1] * y[2] = y[1] * x[2]

FracLt(x, y) == x[1] * y[2] < y[1] * x[2]

\* one session is open; the other has not been opened
Init ==
    /\ pc = [r \in Runs |-> IF r = 1 THEN "Idle" ELSE "Closed"]
    /\ size = [r \in Runs |-> 0]
    /\ fs = <<>>
    /\ tmpname = [r \in Runs |-> 0]
    /\ src = [r \in Runs |-> 0]
    /\ td = [r \in Runs |-> 0]
    /\ pages = [r \in Runs |-> -1]
    /\ p = [r \in Runs |-> 0]
    /\ bitmaps = [r \in Runs |-> {}]
    /\ jpeg_paths = [r \in Runs |-> <<>>]
    /\ calls = [r \in Runs |-> <<>>]
    /\ ext = [r \in Runs |-> <<>>]
    /\ exc = [r \in Runs |-> "none"]
    /\ flattened = [r \in Runs |-> {}]
    /\ ui = [r \in Runs |-> {}]
    /\ download = [r \in Runs |-> {}]

\* ------------------------------------------------------------------ main
\* file = st.file_uploader(...): the session receives an upload of sz bytes
Upload(r, sz) ==
    /\ pc[r] = "Idle"
    /\ size' = [size EXCEPT ![r] = sz]
    /\ pc' = [pc EXCEPT ![r] = "Validating"]
    /\ UNCHANGED <<fs, tmpname, src, td, pages, p, bitmaps, jpeg_paths, calls,
                   ext, exc, flattened, ui, download>>

\* the limit itself counted as too large
TooLarge_Ge(sz) == sz >= MAX_FILE_SIZE

TooLarge(sz) == sz > MAX_FILE_SIZE

\* if file.size > MAX_FILE_SIZE: st.error(...); st.stop()
Validate(r) ==
    /\ pc[r] = "Validating"
    /\ IF TooLarge(size[r])
       THEN /\ ui' = [ui EXCEPT ![r] = @ \cup {"too_large"}]
            /\ pc' = [pc EXCEPT ![r] = "Rejected"]
       ELSE /\ ui' = ui
            /\ pc' = [pc EXCEPT ![r] = "Ready"]
    /\ UNCHANGED <<size, fs, tmpname, src, td, pages, p, bitmaps, jpeg_paths,
                   calls, ext, exc, flattened, download>>

\* st.button pressed; tempfile.NamedTemporaryFile(delete=False, suffix=".pdf")
ClickFlatten(r) ==
    /\ pc[r] = "Ready"
    /\ \E n \in MkstempNames :
         /\ fs' = Put(fs, SrcPath(n), Entry(r, 0, 0))
         /\ tmpname' = [tmpname EXCEPT ![r] = n]
    /\ pc' = [pc EXCEPT ![r] = "WriteTmp"]
    /\ UNCHANGED <<size, src, td, pages, p, bitmaps, jpeg_paths, calls, ext,
                   exc, flattened, ui, download>>

\* tmp.write(file.read()); src = Path(tmp.name)   (src stays unbound on error)
WriteTmp(r, ok) ==
    /\ pc[r] = "WriteTmp"
    /\ Log(r, [call |-> "write", page |-> 0, last |-> 0, ok |-> ok])
    /\ IF ok
       THEN /\ fs' = Put(fs, SrcPath(tmpname[r]), Entry(r, r, 0))
            /\ src' = [src EXCEPT ![r] = tmpname[r]]
            /\ exc' = exc
            /\ pc' = [pc EXCEPT ![r] = "EnterDir"]
       ELSE /\ Raise(r, "WriteError")
            /\ pc' = [pc EXCEPT ![r] = "Except"]
            /\ UNCHANGED <<fs, src>>
    /\ UNCHANGED <<size, tmpname, td, pages, p, bitmaps, jpeg_paths, calls,
                   flattened, ui, download>>

\* with tempfile.TemporaryDirectory() as td: progress = st.progress(0.0)
EnterDir(r) ==
    /\ pc[r] = "EnterDir"
    /\ \E d \in MkdtempNames :
         /\ fs' = Put(fs, DirPath(d), Entry(r, 0, 0))
         /\ td' = [td EXCEPT ![r] = d]
    /\ pc' = [pc EXCEPT ![r] = "PdfInfo"]
    /\ UNCHANGED <<size, tmpname, src, pages, p, bitmaps, jpeg_paths, calls,
                   ext, exc, flattened, ui, download>>

\* --------------------------------------------------- rasterise_streaming
\* range(1, pages): the last page left out
LoopHead_Short(k, n) == IF k < n THEN "Render" ELSE "FinalUpdate"

\* for p in range(1, pages + 1): the position after the loop variable is k
LoopHead(k, n) == IF k <= n THEN "Render" ELSE "FinalUpdate"

PdfInfoResults == {"ok", "PDFInfoNotInstalledError", "PDFPageCountError"}

\* pages = int(pdfinfo_from_path(str(src), **POPPLER_KW)["Pages"])
PdfInfo(r, res, n) ==
    /\ pc[r] = "PdfInfo"
    /\ Exists(SrcPath(src[r])) \/ res = "PDFPageCountError"
    /\ Log(r, [call |-> "pdfinfo", page |-> 0, last |-> 0, ok |-> (res = "ok")])
    /\ IF res = "ok"
       THEN /\ pages' = [pages EXCEPT ![r] = n]
            /\ jpeg_paths' = [jpeg_paths EXCEPT ![r] = <<>>]
            /\ p' = [p EXCEPT ![r] = 1]
            /\ pc' = [pc EXCEPT ![r] = LoopHead(1, n)]
            /\ UNCHANGED <<exc, ui>>
       ELSE /\ Raise(r, res)
            /\ ui' = [ui EXCEPT ![r] =
                        IF res = "PDFInfoNotInstalledError"
                        THEN @ \cup {"poppler_not_found"} ELSE @]
            /\ pc' = [pc EXCEPT ![r] = "ExitDir"]
            /\ UNCHANGED <<pages, jpeg_paths, p>>
    /\ UNCHANGED <<size, fs, tmpname, src, td, bitmaps, calls, flattened,
                   download>>

\* last_page left at the end of the document
RenderRequest_ToEnd(k, n) == [first |-> k, last |-> n]

\* convert_from_path(str(src), dpi=dpi, first_page=p, last_page=p, ...)
RenderRequest(k, n) == [first |-> k, last |-> k]

\* a failed render swallowed: the page is skipped and the loop goes on
Render_SkipFailed(r, ok) ==
    /\ pc[r] = "Render"
    /\ Log(r, [call |-> "render", page |-> p[r], last |-> p[r], ok |-> ok])
    /\ IF ok
       THEN /\ bitmaps' = [bitmaps EXCEPT ![r] =
                              @ \cup {<<fs[SrcPath(src[r])].doc, p[r]>>}]
            /\ pc' = [pc EXCEPT ![r] = "Save"]
            /\ p' = p
       ELSE /\ p' = [p EXCEPT ![r] = @ + 1]
            /\ pc' = [pc EXCEPT ![r] =
                        IF p[r] + 1 <= pages[r] THEN "Render" ELSE "FinalUpdate"]
            /\ UNCHANGED bitmaps
    /\ UNCHANGED <<size, fs, tmpname, src, td, pages, jpeg_paths, calls, exc,
                   flattened, ui, download>>

\* a failed render tried once more before the run gives up
Render_RetryOnce(r, ok) ==
    /\ pc[r] = "Render"
    /\ Log(r, [call |-> "render", page |-> p[r], last |-> p[r], ok |-> ok])
    /\ IF ok
       THEN /\ bitmaps' = [bitmaps EXCEPT ![r] =
                              @ \cup {<<fs[SrcPath(src[r])].doc, p[r]>>}]
            /\ exc' = exc
            /\ pc' = [pc EXCEPT ![r] = "Save"]
       ELSE /\ UNCHANGED bitmaps
            /\ IF ext[r][Len(ext[r])].call = "render" /\ ~ext[r][Len(ext[r])].ok
               THEN /\ Raise(r, "RenderError")
                    /\ pc' = [pc EXCEPT ![r] = "ExitDir"]
               ELSE UNCHANGED <<exc, pc>>
    /\ UNCHANGED <<size, fs, tmpname, src, td, pages, p, jpeg_paths, calls,
                   flattened, ui, download>>

\* img = convert_from_path(...)[0]: the pages first..last are decoded; the
\* new images are resident together with whatever was not released before
Render(r, ok) ==
    /\ pc[r] = "Render"
    /\ LET req == RenderRequest(p[r], pages[r])
           good == ok /\ Exists(SrcPath(src[r]))
       IN  /\ Log(r, [call |-> "render", page |-> req.first, last |-> req.last,
                      ok |-> good])
           /\ IF good
              THEN /\ bitmaps' = [bitmaps EXCEPT ![r] =
                        @ \cup {<<fs[SrcPath(src[r])].doc, k>> :
                                   k \in req.first..req.last}]
                   /\ exc' = exc
                   /\ pc' = [pc EXCEPT ![r] = "Save"]
              ELSE /\ Raise(r, IF ok THEN "MissingFile" ELSE "RenderError")
                   /\ pc' = [pc EXCEPT ![r] = "ExitDir"]
                   /\ UNCHANGED bitmaps
    /\ UNCHANGED <<size, fs, tmpname, src, td, pages, p, jpeg_paths, calls,
                   flattened, ui, download>>

\* jpg = out_dir / f"page_{p:04d}.jpg"; img.save(jpg, "JPEG", quality=quality)
\* jpeg_paths.append(jpg).  A failed save may leave a partial file behind.
SavePage(r, ok, partial) ==
    /\ pc[r] = "Save"
    /\ ok => ~partial
    /\ LET jpg == PagePath(td[r], p[r])
           img == CHOOSE b \in bitmaps[r] : b[2] = p[r]
           good == ok /\ Exists(DirPath(td[r]))
       IN  /\ Log(r, [call |-> "save", page |-> p[r], last |-> p[r], ok |-> good])
           /\ IF good
              THEN /\ fs' = Put(fs, jpg, Entry(r, img[1], img[2]))
                   /\ jpeg_paths' = [jpeg_paths EXCEPT ![r] = Append(@, jpg)]
                   /\ exc' = exc
                   /\ pc' = [pc EXCEPT ![r] = "Del"]
              ELSE /\ fs' = IF partial /\ Exists(DirPath(td[r]))
                            THEN Put(fs, jpg, Entry(r, 0, 0)) ELSE fs
                   /\ Raise(r, IF ok THEN "MissingFile" ELSE "SaveError")
                   /\ pc' = [pc EXCEPT ![r] = "ExitDir"]
                   /\ UNCHANGED jpeg_paths
    /\ UNCHANGED <<size, tmpname, src, td, pages, p, bitmaps, calls, flattened,
                   ui, download>>

\* the image kept alive past the end of the iteration
ReleaseImg_Skipped(r) ==
    /\ pc[r] = "Del"
    /\ pc' = [pc EXCEPT ![r] = "Update"]
    /\ UNCHANGED <<size, fs, tmpname, src, td, pages, p, bitmaps, jpeg_paths,
                   calls, ext, exc, flattened, ui, download>>

\* del img; gc.collect()
ReleaseImg(r) ==
    /\ pc[r] = "Del"
    /\ bitmaps' = [bitmaps EXCEPT ![r] = {}]
    /\ pc' = [pc EXCEPT ![r] = "Update"]
    /\ UNCHANGED <<size, fs, tmpname, src, td, pages, p, jpeg_paths, calls,
                   ext, exc, flattened, ui, download>>

\* progress reported from the pages done before this one
UpdatePage_Before(r) ==
    /\ pc[r] = "Update"
    /\ calls' = [calls EXCEPT ![r] = Append(@, Frac(p[r] - 1, pages[r]))]
    /\ p' = [p EXCEPT ![r] = @ + 1]
    /\ pc' = [pc EXCEPT ![r] =
                IF p[r] + 1 <= pages[r] THEN "Render" ELSE "FinalUpdate"]
    /\ UNCHANGED <<size, fs, tmpname, src, td, pages, bitmaps, jpeg_paths,
                   ext, exc, flattened, ui, download>>

\* if update: update(p / pages)      and the loop moves on to p + 1
UpdatePage(r) ==
    /\ pc[r] = "Update"
    /\ calls' = [calls EXCEPT ![r] = Append(@, Frac(p[r], pages[r]))]
    /\ p' = [p EXCEPT ![r] = @ + 1]
    /\ pc' = [pc EXCEPT ![r] = LoopHead(p[r] + 1, pages[r])]
    /\ UNCHANGED <<size, fs, tmpname, src, td, pages, bitmaps, jpeg_paths,
                   ext, exc, flattened, ui, download>>

\* the closing update(1.0) left out
UpdateFinal_Skipped(r) ==
    /\ pc[r] = "FinalUpdate"
    /\ pc' = [pc EXCEPT ![r] = "Rebuild"]
    /\ UNCHANGED <<size, fs, tmpname, src, td, pages, p, bitmaps, jpeg_paths,
                   calls, ext, exc, flattened, ui, download>>

\* if update: update(1.0); return jpeg_paths
UpdateFinal(r) ==
    /\ pc[r] = "FinalUpdate"
    /\ calls' = [calls EXCEPT ![r] = Append(@, One)]
    /\ pc' = [pc EXCEPT ![r] = "Rebuild"]
    /\ UNCHANGED <<size, fs, tmpname, src, td, pages, p, bitmaps, jpeg_paths,
                   ext, exc, flattened, ui, download>>

\* ------------------------------------------------------------ rebuild_pdf
\* img2pdf.convert([str(p) for p in paths]): one output page per path, in
\* list order, holding what the file at that path holds
Pdf(paths) == [i \in 1..Len(paths) |-> <<fs[paths[i]].doc, fs[paths[i]].page>>]

\* flattened = rebuild_pdf(pages): convert, then unlink every path
RebuildPdf(r, ok) ==
    /\ pc[r] = "Rebuild"
    /\ LET paths == jpeg_paths[r]
           good == ok /\ \A q \in Range(paths) : Exists(q)
       IN  /\ Log(r, [call |-> "convert", page |-> 0, last |-> 0, ok |-> good])
           /\ IF good
              THEN /\ flattened' = [flattened EXCEPT ![r] = {Pdf(paths)}]
                   /\ fs' = Remove(fs, Range(paths))
                   /\ exc' = exc
              ELSE /\ Raise(r, IF ok THEN "MissingFile" ELSE "ConvertError")
                   /\ UNCHANGED <<flattened, fs>>
    /\ pc' = [pc EXCEPT ![r] = "ExitDir"]
    /\ UNCHANGED <<size, tmpname, src, td, pages, p, bitmaps, jpeg_paths,
                   calls, ui, download>>

\* ------------------------------------------------- main: leaving the try
\* TemporaryDirectory.__exit__: the directory and all below it are removed
ExitDir(r) ==
    /\ pc[r] = "ExitDir"
    /\ fs' = Remove(fs, Tree(td[r]))
    /\ pc' = [pc EXCEPT ![r] = IF exc[r] = "none" THEN "Finally" ELSE "Except"]
    /\ UNCHANGED <<size, tmpname, src, td, pages, p, bitmaps, jpeg_paths,
                   calls, ext, exc, flattened, ui, download>>

\* except Exception as e: logging.exception(e); st.error(...); return
\* (the frames of the failed call, and their locals, go with the exception)
Except(r) ==
    /\ pc[r] = "Except"
    /\ ui' = [ui EXCEPT ![r] = @ \cup {"processing_failed"}]
    /\ bitmaps' = [bitmaps EXCEPT ![r] = {}]
    /\ pc' = [pc EXCEPT ![r] = "Finally"]
    /\ UNCHANGED <<size, fs, tmpname, src, td, pages, p, jpeg_paths, calls,
                   ext, exc, flattened, download>>

\* finally: src.unlink(missing_ok=True); an unbound src raises
\* UnboundLocalError, which leaves main() in place of the return
Finally(r) ==
    /\ pc[r] = "Finally"
    /\ IF src[r] = 0
       THEN /\ Raise(r, "UnboundLocalError")
            /\ pc' = [pc EXCEPT ![r] = "Crashed"]
            /\ fs' = fs
       ELSE /\ fs' = Remove(fs, {SrcPath(src[r])})
            /\ exc' = exc
            /\ pc' = [pc EXCEPT ![r] = IF exc[r] = "none" THEN "Success"
                                       ELSE "Failed"]
    /\ UNCHANGED <<size, tmpname, src, td, pages, p, bitmaps, jpeg_paths,
                   calls, ext, flattened, ui, download>>

\* st.success("Done! Download below."); st.download_button(data=flattened)
Success(r) ==
    /\ pc[r] = "Success"
    /\ ui' = [ui EXCEPT ![r] = @ \cup {"done"}]
    /\ download' = [download EXCEPT ![r] = flattened[r]]
    /\ pc' = [pc EXCEPT ![r] = "Complete"]
    /\ UNCHANGED <<size, fs, tmpname, src, td, pages, p, bitmaps, jpeg_paths,
                   calls, ext, exc, flattened>>

Next ==
    \E r \in Runs :
        \/ \E sz \in Sizes : Upload(r, sz)
        \/ Validate(r)
        \/ ClickFlatten(r)
        \/ \E ok \in BOOLEAN : WriteTmp(r, ok)
        \/ EnterDir(r)
        \/ \E res \in PdfInfoResults, n \in 0..MaxPages : PdfInfo(r, res, n)
        \/ \E ok \in BOOLEAN : Render(r, ok)
        \/ \E ok \in BOOLEAN, partial \in BOOLEAN : SavePage(r, ok, partial)
        \/ ReleaseImg(r)
        \/ UpdatePage(r)
        \/ UpdateFinal(r)
        \/ \E ok \in BOOLEAN : RebuildPdf(r, ok)
        \/ ExitDir(r)
        \/ Except(r)
        \/ Finally(r)
        \/ Success(r)

Spec == Init /\ [][Next]_vars

\* both sessions are open and run main() side by side
InitConc ==
    /\ pc = [r \in Runs |-> "Idle"]
    /\ size = [r \in Runs |-> 0]
    /\ fs = <<>>
    /\ tmpname = [r \in Runs |-> 0]
    /\ src = [r \in Runs |-> 0]
    /\ td = [r \in Runs |-> 0]
    /\ pages = [r \in Runs |-> -1]
    /\ p = [r \in Runs |-> 0]
    /\ bitmaps = [r \in Runs |-> {}]
    /\ jpeg_paths = [r \in Runs |-> <<>>]
    /\ calls = [r \in Runs |-> <<>>]
    /\ ext = [r \in Runs |-> <<>>]
    /\ exc = [r \in Runs |-> "none"]
    /\ flattened = [r \in Runs |-> {}]
    /\ ui = [r \in Runs |-> {}]
    /\ download = [r \in Runs |-> {}]

SpecConc == InitConc /\ [][Next]_vars

Terminal == {"Rejected", "Failed", "Complete", "Crashed"}

\* ----------------------------------------------------- observation helpers
\* the calls of one kind in the log of run r
CallsOf(r, name) == SelectSeq(ext[r], LAMBDA c : c.call = name)

AnyFailed(r) == \E i \in 1..Len(ext[r]) : ~ext[r][i].ok

\* rasterise_streaming has returned its list to main
Returned(r) == pc[r] = "Rebuild" \/ Len(CallsOf(r, "convert")) > 0

\* the indices of calls[r] whose argument equals 1.0
OnesAt(r) == {i \in 1..Len(calls[r]) : FracEq(calls[r][i], One)}

\* the document of run r, flattened: its pages 1..pages[r] in order
OwnPdf(r) == [k \in 1..pages[r] |-> <<r, k>>]

\* what run r has put on the file system and is still there
OwnFiles(r) == {<<q, fs[q]>> : q \in {x \in DOMAIN fs : fs[x].by = r}}

\* ------------------------------------------------------------------ claims
\* C1: in a run with N >= 1 pages the k-th progress call of the page loop is
\* the one of ordinal k (argument k / N), the loop makes no more than N
\* calls, and once rasterise_streaming has returned there are exactly N + 1
\* calls, the last one with argument 1.0.
C1_ProgressCallsPerPage ==
    \A r \in Runs :
        pages[r] >= 1 =>
            /\ \A k \in 1..Len(calls[r]) :
                   k <= pages[r] => calls[r][k] = Frac(k, pages[r])
            /\ ~Returned(r) => Len(calls[r]) <= pages[r]
            /\ Returned(r) =>
                   /\ Len(calls[r]) = pages[r] + 1
                   /\ calls[r][pages[r] + 1] = One

C1_Witness ==
    \E r \in Runs : pc[r] = "Complete" /\ pages[r] = 2 /\ Len(calls[r]) = 3

\* C2 as stated: over a successful run with N >= 1 pages the fractions never
\* decrease, all lie in [0, 1], and exactly one call, the last, reports 1.0.
C2_ExactlyOneCallReportsOne ==
    \A r \in Runs :
        (Returned(r) /\ pages[r] >= 1) =>
            /\ \A i, j \in 1..Len(calls[r]) :
                   i <= j => FracLe(calls[r][i], calls[r][j])
            /\ \A i \in 1..Len(calls[r]) :
                   FracLe(Frac(0, 1), calls[r][i]) /\ FracLe(calls[r][i], One)
            /\ OnesAt(r) = {Len(calls[r])}

\* C2 amended: the fractions never decrease, all lie in [0, 1], the per-page
\* fractions increase strictly, and exactly two calls report 1.0: the call
\* for the last page (N / N) and the closing call that follows it.
C2_TwoCallsReportOne ==
    \A r \in Runs :
        /\ \A i, j \in 1..Len(calls[r]) :
               i <= j => FracLe(calls[r][i], calls[r][j])
        /\ \A i \in 1..Len(calls[r]) :
               FracLe(Frac(0, 1), calls[r][i]) /\ FracLe(calls[r][i], One)
        /\ (Returned(r) /\ pages[r] >= 1) =>
               /\ \A i, j \in 1..pages[r] :
                      i < j => FracLt(calls[r][i], calls[r][j])
               /\ OnesAt(r) = {pages[r], pages[r] + 1}
               /\ Len(calls[r]) = pages[r] + 1

C2_Witness ==
    \E r \in Runs :
        pc[r] = "Complete" /\ pages[r] = 2 /\ OnesAt(r) = {2, 3}

\* C3: an upload of exactly MAX_FILE_SIZE bytes is let through to
\* processing; a larger one is rejected with nothing done for it: no
\* temporary file created or written, no page count asked for, no render.
C3_SizeLimit ==
    \A r \in Runs :
        pc[r] \notin {"Closed", "Idle", "Validating"} =>
            /\ size[r] = MAX_FILE_SIZE =>
                   pc[r] # "Rejected" /\ "too_large" \notin ui[r]
            /\ size[r] > MAX_FILE_SIZE =>
                   /\ pc[r] = "Rejected"
                   /\ tmpname[r] = 0 /\ src[r] = 0 /\ td[r] = 0
                   /\ ext[r] = <<>> /\ pages[r] = -1
                   /\ OwnFiles(r) = {}

C3_Witness ==
    \E r, t \in Runs :
        /\ size[r] = MAX_FILE_SIZE /\ pc[r] = "Complete"
        /\ size[t] = MAX_FILE_SIZE + 1 /\ pc[t] = "Rejected"

\* C4: a pdf exists, and is offered for download, only in a run where the
\* page count, the render and the save of every page 1..N and the
\* reassembly all succeeded, and it is then the whole document; in a run
\* where any call failed no pdf exists and none is offered.
C4_AllOrNothing ==
    \A r \in Runs :
        /\ (flattened[r] # {} \/ download[r] # {} \/ "done" \in ui[r]) =>
               /\ ~AnyFailed(r) /\ exc[r] = "none"
               /\ Len(CallsOf(r, "pdfinfo")) = 1
               /\ \A k \in 1..pages[r] :
                      /\ Len(CallsOf(r, "render")) >= k
                      /\ CallsOf(r, "render")[k].page = k
                      /\ Len(CallsOf(r, "save")) >= k
                      /\ CallsOf(r, "save")[k].page = k
               /\ Len(CallsOf(r, "convert")) = 1
               /\ flattened[r] = {OwnPdf(r)}
               /\ download[r] \subseteq flattened[r]
        /\ (AnyFailed(r) \/ exc[r] # "none") =>
               flattened[r] = {} /\ download[r] = {} /\ "done" \notin ui[r]

C4_Witness ==
    \E r \in Runs :
        /\ pc[r] = "Failed" /\ exc[r] = "RenderError"
        /\ p[r] = 2 /\ Len(CallsOf(r, "save")) = 1
        /\ flattened[r] = {} /\ download[r] = {}

\* C5 as stated: when a run has ended, however it ended, nothing it put on
\* the file system is left: no page file, no directory, no source copy.
C5_TemporariesDeleted ==
    \A r \in Runs : pc[r] \in Terminal => OwnFiles(r) = {}

\* C6: every render asks for one page (first_page = last_page), at most one
\* decoded page is resident at any time, and none is resident when the next
\* render starts or when reassembly starts.
C6_OneBitmapResident ==
    \A r \in Runs :
        /\ Cardinality(bitmaps[r]) <= 1
        /\ \A i \in 1..Len(ext[r]) :
               ext[r][i].call = "render" => ext[r][i].page = ext[r][i].last
        /\ pc[r] \in {"Render", "FinalUpdate", "Rebuild"} => bitmaps[r] = {}

C6_Witness ==
    \E r \in Runs : pc[r] = "Save" /\ p[r] = 2 /\ bitmaps[r] = {<<r, 2>>}

\* C7: when rebuild_pdf starts, the list holds exactly one file per ordinal
\* 1..page_count, in ascending order, each holding its page; a pdf that is
\* produced has the pages of the input, in the input's order.
C7_BufferCompleteAndOrdered ==
    \A r \in Runs :
        /\ pc[r] = "Rebuild" =>
               /\ Len(jpeg_paths[r]) = pages[r]
               /\ \A k \in 1..Len(jpeg_paths[r]) :
                      /\ jpeg_paths[r][k] = PagePath(td[r], k)
                      /\ Exists(jpeg_paths[r][k])
                      /\ fs[jpeg_paths[r][k]].doc = r
                      /\ fs[jpeg_paths[r][k]].page = k
        /\ flattened[r] \subseteq {OwnPdf(r)}
        /\ download[r] \subseteq {OwnPdf(r)}

C7_Witness ==
    \E r \in Runs :
        pc[r] = "Complete" /\ pages[r] = 2 /\ download[r] = {<<<<r, 1>>, <<r, 2>>>>}

\* C8: a failed call is the last call of its run: nothing is rendered,
\* retried or reassembled after it.  After a failed page count no render was
\* made at all; after a failed render or save of page i the renders made are
\* those of pages 1..i, once each; and the run is on its way to Failed.
C8_NothingAfterFirstFailure ==
    \A r \in Runs :
        /\ \A i \in 1..Len(ext[r]) : ~ext[r][i].ok => i = Len(ext[r])
        /\ (AnyFailed(r) /\ ext[r][Len(ext[r])].call = "pdfinfo") =>
               CallsOf(r, "render") = <<>>
        /\ (AnyFailed(r) /\ ext[r][Len(ext[r])].call \in {"render", "save"}) =>
               /\ Len(CallsOf(r, "render")) = ext[r][Len(ext[r])].page
               /\ \A k \in 1..Len(CallsOf(r, "render")) :
                      CallsOf(r, "render")[k].page = k
               /\ CallsOf(r, "convert") = <<>>
        /\ (AnyFailed(r)
              /\ ext[r][Len(ext[r])].call \in {"pdfinfo", "render", "save"}) =>
               /\ pc[r] \in {"ExitDir", "Except", "Finally", "Failed"}
               /\ exc[r] # "none"

C8_Witness ==
    \E r \in Runs :
        /\ pc[r] = "Failed" /\ pages[r] = 2
        /\ Len(CallsOf(r, "render")) = 1 /\ ~CallsOf(r, "render")[1].ok

\* C9: page p goes through render, save and store, release, progress report,
\* in this order, and the render of page p + 1 comes after the report for p:
\* at the progress call for p the list holds the files of pages 1..p and no
\* decoded page is resident.
C9_PageStepOrder ==
    \A r \in Runs :
        /\ pc[r] = "Render" =>
               /\ Len(CallsOf(r, "render")) = p[r] - 1
               /\ Len(jpeg_paths[r]) = p[r] - 1
               /\ Len(calls[r]) = p[r] - 1
               /\ bitmaps[r] = {}
        /\ pc[r] = "Save" =>
               /\ Len(CallsOf(r, "render")) = p[r]
               /\ bitmaps[r] = {<<r, p[r]>>}
               /\ Len(jpeg_paths[r]) = p[r] - 1
               /\ Len(calls[r]) = p[r] - 1
        /\ pc[r] = "Del" =>
               /\ Len(jpeg_paths[r]) = p[r]
               /\ bitmaps[r] = {<<r, p[r]>>}
               /\ Len(calls[r]) = p[r] - 1
        /\ pc[r] = "Update" =>
               /\ jpeg_paths[r] = [k \in 1..p[r] |-> PagePath(td[r], k)]
               /\ \A k \in 1..p[r] :
                      /\ Exists(PagePath(td[r], k))
                      /\ fs[PagePath(td[r], k)] = Entry(r, r, k)
               /\ bitmaps[r] = {}
               /\ Len(calls[r]) = p[r] - 1

C9_Witness ==
    \E r \in Runs : pc[r] = "Update" /\ p[r] = 2 /\ Len(jpeg_paths[r]) = 2

\* C10: with two runs side by side, a step of one run leaves the other run's
\* files, list, progress calls and outcome as they were; no run ever finds
\* a file of its own missing, and a pdf a run produces is its own document.
C10_RunsIsolated ==
    [][\A r \in Runs :
          /\ pc'[r] = pc[r] =>
                /\ OwnFiles(r)' = OwnFiles(r)
                /\ <<jpeg_paths[r], calls[r], ext[r], exc[r], bitmaps[r],
                     flattened[r], download[r], ui[r]>>'
                     = <<jpeg_paths[r], calls[r], ext[r], exc[r], bitmaps[r],
                         flattened[r], download[r], ui[r]>>
          /\ exc'[r] # "MissingFile"
          /\ flattened'[r] \subseteq {OwnPdf(r)'}
          /\ pc'[r] = "Rebuild" =>
                \A k \in 1..Len(jpeg_paths'[r]) :
                    /\ jpeg_paths'[r][k] \in DOMAIN fs'
                    /\ fs'[jpeg_paths'[r][k]] = Entry(r, r, k)
      ]_vars

C10_Witness ==
    /\ pc[1] = "ExitDir" /\ exc[1] = "SaveError" /\ Len(jpeg_paths[1]) = 1
    /\ pc[2] = "Rebuild" /\ pages[2] = 2

====
